---- MODULE Spec2Model ----
(***************************************************************************)
(* A model of lorax_server/adapters/lora.py: the LoRA adapter weights of a *)
(* multi-adapter inference server.                                         *)
(*                                                                         *)
(*   LoraWeights            one adapter's stacked A/B blocks with the lazy *)
(*                          orientation toggle (_transpose_weights)        *)
(*   LoraWeights.load       loading one layer type of an adapter           *)
(*   BatchLoraWeights.load  the per batch, per layer aggregation: pointer  *)
(*                          tables, rank groups, sgmv/bgmv choice          *)
(*                                                                         *)
(* A tensor is a record [ptr, val]: the address data_ptr() returns and the *)
(* value, a sequence of matrices (a stacked 3-D block).  Python sequences  *)
(* are 0-based; the model keeps TLA+'s 1-based sequences and converts the  *)
(* positions the program stores as numbers (segment positions, bgmv        *)
(* indices) to the program's 0-based values.                               *)
(***************************************************************************)
EXTENDS Integers, Sequences, FiniteSets, TLC

VARIABLES
    \* ---- one LoraWeights instance and the callers of its accessors
    lw,             \* the instance: _weights_a, _weights_b, _is_transposed, ...
    loaded_a,       \* the value of the A block when the instance was built
    loaded_b,       \* the value of the B block when the instance was built
    pc,             \* per caller: where it is inside an accessor
    acc,            \* per caller: the accessor it reads
    tmp_t,          \* per caller: the tensor it has read and not yet stored
    tmp_f,          \* per caller: the flag it has read and not yet stored
    ret,            \* per caller: the tensor its last read returned
    \* ---- LoraWeights.load
    hf_config,      \* the adapter's configuration as published (r, alpha, rslora)
    config,         \* the LoraConfig object built from it (r is mutable)
    model,          \* the base model: world_size, layers per layer type
    module_map,     \* the module names the adapter covers
    unused_weight_names,  \* the tensor names no load has consumed yet
    layer_weights,  \* per layer type: what LoraWeights.load returned
    \* ---- BatchLoraWeights.load
    adapter_weights,      \* adapter index -> LoraWeights for the layer, or none
    meta,           \* the AdapterBatchMetadata of the current step
    prefill,        \* the prefill flag of the current step
    prefill_head_indices, \* the selected token positions, or none
    batch           \* what BatchLoraWeights.load returned for the step

vars == <<lw, loaded_a, loaded_b, pc, acc, tmp_t, tmp_f, ret,
          hf_config, config, model, module_map, unused_weight_names,
          layer_weights,
          adapter_weights, meta, prefill, prefill_head_indices, batch>>

orient_vars == <<lw, loaded_a, loaded_b, pc, acc, tmp_t, tmp_f, ret>>
load_vars == <<hf_config, config, model, module_map, unused_weight_names,
               layer_weights>>
batch_vars == <<adapter_weights, meta, prefill, prefill_head_indices, batch>>

(***************************************************************************)
(* Bounds of the model.                                                    *)
(***************************************************************************)
MaxLayers == 2      \* layers of one layer type
MaxHidden == 2      \* hidden size of a block in the accessor specifications
MaxRank == 2        \* rank of a block in the accessor specifications
NumCallers == 2     \* concurrent readers of one LoraWeights
MaxSegs == 3        \* segments of a batch

(***************************************************************************)
(* Tensors.                                                                *)
(***************************************************************************)
\* torch.tensor([]): no storage, data_ptr() is the null address.
EMPTY_TENSOR == [ptr |-> 0, val |-> <<>>]

Max(S) == CHOOSE x \in S : \A y \in S : y <= x

Min(S) == CHOOSE x \in S : \A y \in S : x <= y

\* The allocator serves each size class from a region of its own, and a block
\* freed is the first to be reused: a new tensor of the size of the tensor at
\* `like` gets the lowest address of that region no live tensor holds.
RegionSize == 2 * NumCallers + 4

Region(like) ==
    LET base == ((like - 1) \div RegionSize) * RegionSize
    IN  (base + 1)..(base + RegionSize)

Alloc(live, like) == Min(Region(like) \ live)

\* m.transpose(0, 1) of one matrix, a sequence of rows.
Transpose2D(m) ==
    IF Len(m) = 0 THEN <<>>
    ELSE [j \in 1..Len(m[1]) |-> [i \in 1..Len(m) |-> m[i][j]]]

\* v.transpose(1, 2) of a stacked block.
Transpose12(v) == [l \in 1..Len(v) |-> Transpose2D(v[l])]

\* t.transpose(1, 2).contiguous(): a new tensor, allocated while `live` is held.
TransposeContiguous(t, live) ==
    [ptr |-> Alloc(live \cup {t.ptr}, t.ptr), val |-> Transpose12(t.val)]

\* A block of `layers` matrices of `rows` x `cols` pairwise distinct entries.
Block(tag, layers, rows, cols) ==
    [l \in 1..layers |-> [i \in 1..rows |-> [j \in 1..cols |->
        ((tag * 10 + l) * 10 + i) * 1000 + j]]]

(***************************************************************************)
(* LoraWeights: the constructor, the orientation toggle, the accessors.    *)
(* `others` is the set of addresses held outside the instance while the    *)
(* operation runs.                                                         *)
(***************************************************************************)
\* __init__ after torch.stack: the blocks in load-time orientation.
LoraWeights(a, b, cutlass) ==
    [lora_a_r |-> IF Len(a.val) > 0 THEN Len(a.val[1][1]) ELSE 1,
     _use_cutlass_shrink |-> cutlass,
     _is_transposed |-> FALSE,
     _weights_a |-> a,
     _weights_b |-> b]

\* A slip: the A block is transposed whatever the shrink kernel is.
TransposeWeightsAlwaysA(self, others) ==
    LET a == TransposeContiguous(self._weights_a,
                                 others \cup {self._weights_b.ptr})
        b == TransposeContiguous(self._weights_b, others \cup {a.ptr})
    IN  [self EXCEPT !._weights_a = a, !._weights_b = b,
                     !._is_transposed = ~self._is_transposed]

_transpose_weights(self, others) ==
    LET a == IF self._use_cutlass_shrink
             THEN TransposeContiguous(self._weights_a,
                                      others \cup {self._weights_b.ptr})
             ELSE self._weights_a
        b == TransposeContiguous(self._weights_b, others \cup {a.ptr})
    IN  [self EXCEPT !._weights_a = a, !._weights_b = b,
                     !._is_transposed = ~self._is_transposed]

\* Each accessor gives the instance after the read and the tensor returned.
weights_a(self, others) ==
    LET s == IF self._is_transposed THEN _transpose_weights(self, others) ELSE self
    IN  [self |-> s, ret |-> s._weights_a]

weights_b(self, others) ==
    LET s == IF self._is_transposed THEN _transpose_weights(self, others) ELSE self
    IN  [self |-> s, ret |-> s._weights_b]

weights_a_t(self, others) ==
    LET s == IF ~self._is_transposed THEN _transpose_weights(self, others) ELSE self
    IN  [self |-> s, ret |-> s._weights_a]

weights_b_t(self, others) ==
    LET s == IF ~self._is_transposed THEN _transpose_weights(self, others) ELSE self
    IN  [self |-> s, ret |-> s._weights_b]

Accessors == {"weights_a", "weights_b", "weights_a_t", "weights_b_t"}

Callers == 1..NumCallers

\* The addresses the callers hold: tensors read and tensors returned.
HeldByCallers ==
    ({tmp_t[c].ptr : c \in Callers} \cup {ret[c].ptr : c \in Callers}) \ {0}

LwPtrs == {lw._weights_a.ptr, lw._weights_b.ptr}

(***************************************************************************)
(* Initial states.                                                         *)
(***************************************************************************)
InitOrient ==
    /\ \E layers \in 1..MaxLayers, hidden \in 1..MaxHidden, r \in 1..MaxRank,
          cutlass \in BOOLEAN :
          LET a == [ptr |-> 1, val |-> Block(1, layers, hidden, r)]
              b == [ptr |-> 2, val |-> Block(2, layers, r, hidden)]
          IN  /\ lw = LoraWeights(a, b, cutlass)
              /\ loaded_a = a.val
              /\ loaded_b = b.val
    /\ pc = [c \in Callers |-> "idle"]
    /\ acc = [c \in Callers |-> "weights_a"]
    /\ tmp_t = [c \in Callers |-> EMPTY_TENSOR]
    /\ tmp_f = [c \in Callers |-> FALSE]
    /\ ret = [c \in Callers |-> EMPTY_TENSOR]

IdleOrient ==
    /\ lw = LoraWeights(EMPTY_TENSOR, EMPTY_TENSOR, FALSE)
    /\ loaded_a = <<>>
    /\ loaded_b = <<>>
    /\ pc = [c \in Callers |-> "idle"]
    /\ acc = [c \in Callers |-> "weights_a"]
    /\ tmp_t = [c \in Callers |-> EMPTY_TENSOR]
    /\ tmp_f = [c \in Callers |-> FALSE]
    /\ ret = [c \in Callers |-> EMPTY_TENSOR]

IdleLoad ==
    /\ hf_config = [r |-> 1, lora_alpha |-> 1, use_rslora |-> FALSE]
    /\ config = [r |-> 1, lora_alpha |-> 1, use_rslora |-> FALSE]
    /\ model = [world_size |-> 1, num_layers |-> 1]
    /\ module_map = {}
    /\ unused_weight_names = {}
    /\ layer_weights = <<>>

IdleBatch ==
    /\ adapter_weights = <<>>
    /\ meta = [segment_indices |-> <<>>, adapter_segments |-> <<0>>,
               adapter_indices |-> <<>>]
    /\ prefill = FALSE
    /\ prefill_head_indices = [given |-> FALSE, positions |-> <<>>]
    /\ batch = [status |-> "idle"]

(***************************************************************************)
(* LoraConfig.map_weights_for_model and LoraWeights.load.                  *)
(* A module is named by its layer and layer type; its two tensors by the   *)
(* module and "lora_A" / "lora_B".                                         *)
(***************************************************************************)
LayerTypes == {"q_proj", "v_proj"}

\* The ranks, alphas and shard counts adapters are published and served with.
ConfiguredRanks == {4, 8, 20}

LoraAlphas == {8, 16}

WorldSizes == {1, 2}

\* model.target_to_layer[(layer_id, layer_type)][0]
WeightName(layer_id, layer_type) == <<layer_id, layer_type>>

lora_a_name(weight_name) == <<weight_name, "lora_A">>

lora_b_name(weight_name) == <<weight_name, "lora_B">>

\* list(range(nlayers)), 0-based layer ids
LayerIds == 0..(model.num_layers - 1)

WeightNames(num_layers) ==
    {WeightName(i, lt) : i \in 0..(num_layers - 1), lt \in LayerTypes}

\* map_weights_for_model: the modules both of whose tensors the checkpoint
\* holds, and the names of those tensors.
map_weights_for_model(checkpoint_names, weight_names) ==
    LET covered == {w \in weight_names :
                        /\ lora_a_name(w) \in checkpoint_names
                        /\ lora_b_name(w) \in checkpoint_names}
    IN  [module_map |-> covered,
         adapter_weight_names |->
            {lora_a_name(w) : w \in covered} \cup {lora_b_name(w) : w \in covered}]

RECURSIVE Gcd(_, _)
Gcd(a, b) == IF b = 0 THEN a ELSE Gcd(b, a % b)

\* The exact value of a quotient: the fraction in lowest terms.
Fraction(num, den) ==
    LET g == Gcd(num, den) IN [num |-> num \div g, den |-> den \div g]

\* get_scaling_factor: lora_alpha / r, or lora_alpha / r**0.5 with rslora, the
\* latter kept as the fraction it is the square root of.
get_scaling_factor(lora_alpha, r, uses_rslora) ==
    IF uses_rslora
    THEN [root |-> TRUE, of |-> Fraction(lora_alpha * lora_alpha, r)]
    ELSE [root |-> FALSE, of |-> Fraction(lora_alpha, r)]

\* pad_rank (lorax_server/utils/punica.py): the rank dimension is padded up to
\* the nearest size the kernel supports for the shard count: the minimum rank
\* times the shard count, or else the next multiple of the block size.
pad_rank(rank, shards) ==
    IF rank <= 8 * shards THEN 8 * shards ELSE ((rank + 15) \div 16) * 16

\* The for loop of LoraWeights.load from layer position i on: `unused` is the
\* unused-name set so far and `scales` the scale merged into each B so far.
\* The result says whether the loop returned None.
RECURSIVE LoadLayers(_, _, _, _)
LoadLayers(layer_type, i, unused, scales) ==
    IF i >= model.num_layers
    THEN [none |-> FALSE, unused |-> unused, scales |-> scales]
    ELSE LET weight_name == WeightName(i, layer_type) IN
         IF weight_name \notin module_map
         THEN [none |-> TRUE, unused |-> unused, scales |-> scales]
         ELSE LET scale == get_scaling_factor(config.lora_alpha, config.r,
                                              config.use_rslora)
              IN  LoadLayers(layer_type, i + 1,
                             unused \ {lora_a_name(weight_name),
                                       lora_b_name(weight_name)},
                             Append(scales, scale))

\* LoraWeights.load(config, model, module_map, layer_type, unused_weight_names)
LoraWeights_load(layer_type) ==
    /\ layer_weights[layer_type].status = "not_loaded"
    /\ LET loop == LoadLayers(layer_type, 0, unused_weight_names, <<>>)
           \* the checkpoint's tensors have the published rank
           padded_rank == pad_rank(hf_config.r, model.world_size)
       IN  /\ unused_weight_names' = loop.unused
           /\ IF loop.none
              THEN /\ layer_weights' =
                        [layer_weights EXCEPT ![layer_type] = [status |-> "none"]]
                   /\ config' = config
              ELSE /\ layer_weights' =
                        [layer_weights EXCEPT ![layer_type] =
                            [status |-> "loaded",
                             lora_b_scales |-> loop.scales,
                             lora_a_r |-> padded_rank]]
                   /\ config' = [config EXCEPT !.r = padded_rank]
    /\ UNCHANGED <<hf_config, model, module_map>>
    /\ UNCHANGED <<orient_vars, batch_vars>>

\* An adapter is published, its tensors mapped to the model's modules
\* (LoraConfig.load, map_weights_for_model), and no layer type is loaded yet.
InitLoad ==
    /\ \E r \in ConfiguredRanks, alpha \in LoraAlphas, rslora \in BOOLEAN :
          /\ hf_config = [r |-> r, lora_alpha |-> alpha, use_rslora |-> rslora]
          /\ config = [r |-> r, lora_alpha |-> alpha, use_rslora |-> rslora]
    /\ \E ws \in WorldSizes, n \in 1..MaxLayers :
          model = [world_size |-> ws, num_layers |-> n]
    /\ \E checkpoint_names \in SUBSET
              ({lora_a_name(w) : w \in WeightNames(model.num_layers)}
               \cup {lora_b_name(w) : w \in WeightNames(model.num_layers)}) :
          LET m == map_weights_for_model(checkpoint_names,
                                         WeightNames(model.num_layers))
          IN  /\ module_map = m.module_map
              /\ unused_weight_names = m.adapter_weight_names
    /\ layer_weights = [lt \in LayerTypes |-> [status |-> "not_loaded"]]

LoadInit == InitLoad /\ IdleOrient /\ IdleBatch

NextLoad == \E layer_type \in LayerTypes : LoraWeights_load(layer_type)

SpecLoad == LoadInit /\ [][NextLoad]_vars

\* The tensor names of one layer type's modules.
LayerTypeNames(layer_type) ==
    {lora_a_name(WeightName(i, layer_type)) : i \in LayerIds}
    \cup {lora_b_name(WeightName(i, layer_type)) : i \in LayerIds}

\* C6: every load of a layer type merges into each B the scale computed from
\* the adapter's configured rank (alpha / r, alpha / sqrt(r) with rslora),
\* also when another layer type was loaded before; and the config's rank is the
\* configured rank until a load succeeds and the padded rank from then on.
C6_ScaleFromConfiguredRank ==
    /\ \A lt \in LayerTypes :
          layer_weights[lt].status = "loaded" =>
             \A i \in 1..Len(layer_weights[lt].lora_b_scales) :
                layer_weights[lt].lora_b_scales[i] =
                   get_scaling_factor(hf_config.lora_alpha, hf_config.r,
                                      hf_config.use_rslora)
    /\ config.r = IF \E lt \in LayerTypes : layer_weights[lt].status = "loaded"
                  THEN pad_rank(hf_config.r, model.world_size)
                  ELSE hf_config.r

\* C9: a load that returns None (a layer's module is missing) changes neither
\* the unused-name set nor the config, and a load that returns weights removes
\* exactly its layer type's tensor names from the unused-name set.
C9_AllOrNothing ==
    [][\A lt \in LayerTypes :
          /\ (layer_weights[lt].status = "not_loaded"
              /\ layer_weights'[lt].status = "none")
             => (unused_weight_names' = unused_weight_names /\ config' = config)
          /\ (layer_weights[lt].status = "not_loaded"
              /\ layer_weights'[lt].status = "loaded")
             => unused_weight_names' = unused_weight_names \ LayerTypeNames(lt)
      ]_vars

(***************************************************************************)
(* BatchLoraWeights.load.  `adapter_weights` is the dictionary after the   *)
(* two comprehensions that open load: adapter index -> LoraWeights, for    *)
(* the adapters that have weights for the layer.                           *)
(***************************************************************************)
AdapterIds == {0, 1, 2}

\* The (padded) ranks of the adapters served.
Ranks == {8, 16, 80}

\* The capacity of the per-token (bgmv) kernel, imported from utils/punica.
BGMV_MAX_RANK == 64

\* use_cutlass_shrink (lorax_server/utils/punica.py): a capability of the
\* shrink kernel derived from the rank, true below the custom kernel's ranks.
use_cutlass_shrink(lora_rank) == lora_rank < 16

\* The addresses the instances of `aw` other than `idx` hold.
PtrsOfOthers(aw, idx) ==
    UNION {{aw[k]._weights_a.ptr, aw[k]._weights_b.ptr} : k \in DOMAIN aw \ {idx}}

Accessor(name, self, others) ==
    CASE name = "weights_a" -> weights_a(self, others)
      [] name = "weights_b" -> weights_b(self, others)
      [] name = "weights_a_t" -> weights_a_t(self, others)
      [] OTHER -> weights_b_t(self, others)

\* A comprehension `adapter_weights[idx].<name> ... for idx in segment_indices`
\* from segment i on: the accessor is read segment by segment, each read
\* acting on the instances as the reads before left them.  `held` are the
\* addresses the call holds so far; with `keep` the tensors read stay held (a
\* dictionary of tensors), without it only their addresses are kept (a
\* pointer table).  `out` has one tensor per segment, EMPTY_TENSOR for a
\* segment whose adapter is not in `aw`.
RECURSIVE ReadEach(_, _, _, _, _, _, _)
ReadEach(aw, segment_indices, i, name, held, keep, out) ==
    IF i > Len(segment_indices)
    THEN [aw |-> aw, out |-> out, held |-> held]
    ELSE LET idx == segment_indices[i] IN
         IF idx \notin DOMAIN aw
         THEN ReadEach(aw, segment_indices, i + 1, name, held, keep,
                       Append(out, EMPTY_TENSOR))
         ELSE LET r == Accessor(name, aw[idx], PtrsOfOthers(aw, idx) \cup held)
              IN  ReadEach([aw EXCEPT ![idx] = r.self], segment_indices, i + 1,
                           name, IF keep THEN held \cup {r.ret.ptr} ELSE held,
                           keep, Append(out, r.ret))

\* {idx: ... for idx in segment_indices if idx in adapter_weights}
DictOf(aw, segment_indices, out) ==
    [idx \in {segment_indices[i] : i \in 1..Len(segment_indices)} \cap DOMAIN aw |->
        out[Max({i \in 1..Len(segment_indices) : segment_indices[i] = idx})]]

\* A slip: an absent adapter's entry is not the sentinel but the address of
\* the first block there is.
PtrTableWithoutSentinel(tensors) ==
    LET present == SelectSeq(tensors, LAMBDA t : t.ptr # EMPTY_TENSOR.ptr)
    IN  [i \in 1..Len(tensors) |->
            IF tensors[i].ptr = EMPTY_TENSOR.ptr /\ Len(present) > 0
            THEN present[1].ptr ELSE tensors[i].ptr]

\* torch.tensor([... .data_ptr() if idx in adapter_weights
\*               else EMPTY_TENSOR.data_ptr() for idx in segment_indices])
PtrTable(tensors) == [i \in 1..Len(tensors) |-> tensors[i].ptr]

\* [adapter_weights[idx].lora_a_r for idx in segment_indices if idx in ...]
SegmentRanks(aw, segment_indices) ==
    {aw[segment_indices[i]].lora_a_r :
        i \in {k \in 1..Len(segment_indices) : segment_indices[k] \in DOMAIN aw}}

\* A slip: the kernel is chosen by the phase alone.
UseSgmvByPhase(is_prefill, max_rank) == is_prefill

\* `if prefill or max_rank > BGMV_MAX_RANK`
UseSgmv(is_prefill, max_rank) == is_prefill \/ max_rank > BGMV_MAX_RANK

\* A slip: the segments of adapters without weights are grouped too (rank 0).
RECURSIVE RankIndicesNoSkip(_, _, _, _)
RankIndicesNoSkip(aw, segment_indices, i, groups) ==
    IF i > Len(segment_indices) THEN groups
    ELSE LET idx == segment_indices[i]
             rank == IF idx \in DOMAIN aw THEN aw[idx].lora_a_r ELSE 0
         IN  RankIndicesNoSkip(aw, segment_indices, i + 1,
                IF rank \in DOMAIN groups
                THEN [groups EXCEPT ![rank] = Append(@, i - 1)]
                ELSE groups @@ (rank :> <<i - 1>>))

\* The loop that fills rank_indices, from segment i on: rank -> the 0-based
\* positions of the segments whose adapter has that rank, in segment order.
RECURSIVE RankIndices(_, _, _, _)
RankIndices(aw, segment_indices, i, groups) ==
    IF i > Len(segment_indices) THEN groups
    ELSE LET idx == segment_indices[i] IN
         IF idx \notin DOMAIN aw
         THEN RankIndices(aw, segment_indices, i + 1, groups)
         ELSE LET rank == aw[idx].lora_a_r
              IN  RankIndices(aw, segment_indices, i + 1,
                     IF rank \in DOMAIN groups
                     THEN [groups EXCEPT ![rank] = Append(@, i - 1)]
                     ELSE groups @@ (rank :> <<i - 1>>))

\* A slip: a position on a boundary is counted into the segment it ends.
RECURSIVE PrefillHeadSegmentsInclusive(_, _, _, _, _, _)
PrefillHeadSegmentsInclusive(heads, adapter_segments, h, j, starts, ends) ==
    IF h > Len(heads) THEN [error |-> FALSE, starts |-> starts, ends |-> ends]
    ELSE IF j + 1 > Len(adapter_segments)
    THEN [error |-> TRUE, starts |-> starts, ends |-> ends]
    ELSE IF heads[h] <= adapter_segments[j + 1]
    THEN PrefillHeadSegmentsInclusive(heads, adapter_segments, h + 1, j, starts,
            [ends EXCEPT ![Len(ends)] = @ + 1])
    ELSE PrefillHeadSegmentsInclusive(heads, adapter_segments, h + 1, j + 1,
            Append(starts, ends[Len(ends)]),
            Append(ends, ends[Len(ends)] + 1))

\* The walk over prefill_head_indices from head h on, with the 0-based
\* boundary index j: the recomputed starts and ends.  Reading
\* meta.adapter_segments[j] past the end raises IndexError.
RECURSIVE PrefillHeadSegments(_, _, _, _, _, _)
PrefillHeadSegments(heads, adapter_segments, h, j, starts, ends) ==
    IF h > Len(heads) THEN [error |-> FALSE, starts |-> starts, ends |-> ends]
    ELSE IF j + 1 > Len(adapter_segments)
    THEN [error |-> TRUE, starts |-> starts, ends |-> ends]
    ELSE IF heads[h] < adapter_segments[j + 1]
    THEN PrefillHeadSegments(heads, adapter_segments, h + 1, j, starts,
            [ends EXCEPT ![Len(ends)] = @ + 1])
    ELSE PrefillHeadSegments(heads, adapter_segments, h + 1, j + 1,
            Append(starts, ends[Len(ends)]),
            Append(ends, ends[Len(ends)] + 1))

\* table[indices]: the entries of a table at 0-based positions.
Gather(table, indices) == [k \in 1..Len(indices) |-> table[indices[k] + 1]]

\* A slip: the end of a segment is read where its start is.
SegmentEndsAtStart(adapter_segments, indices) ==
    [k \in 1..Len(indices) |-> adapter_segments[indices[k] + 1]]

\* meta.adapter_segments[[i + 1 for i in indices]]
SegmentEnds(adapter_segments, indices) ==
    [k \in 1..Len(indices) |-> adapter_segments[(indices[k] + 1) + 1]]

\* A slip: the last location of an adapter is saved, not the first.
IdxLocsLast(segment_indices, indices) ==
    [idx \in {segment_indices[indices[k] + 1] : k \in 1..Len(indices)} |->
        Max({k \in 1..Len(indices) : segment_indices[indices[k] + 1] = idx}) - 1]

\* idx_locs: adapter index -> the 0-based location, in `indices`, of the first
\* segment of that adapter.
IdxLocs(segment_indices, indices) ==
    [idx \in {segment_indices[indices[k] + 1] : k \in 1..Len(indices)} |->
        Min({k \in 1..Len(indices) : segment_indices[indices[k] + 1] = idx}) - 1]

\* One iteration of `for rank, indices in rank_indices.items()`: the
\* RankSegments of one rank, or the exception the iteration raises.
RankSegments(aw, m, rank, indices, use_sgmv, lora_a_ptr, lora_b_ptr, heads, phs) ==
    IF use_sgmv
    THEN IF heads.given /\ \E k \in 1..Len(indices) : indices[k] + 1 > Len(phs.starts)
         THEN [error |-> "IndexError"]
         ELSE [error |-> "",
               rank |-> rank,
               lora_a_ptr |-> Gather(lora_a_ptr, indices),
               lora_b_ptr |-> Gather(lora_b_ptr, indices),
               segment_starts |->
                   IF heads.given THEN Gather(phs.starts, indices)
                   ELSE Gather(m.adapter_segments, indices),
               segment_ends |->
                   IF heads.given THEN Gather(phs.ends, indices)
                   ELSE SegmentEnds(m.adapter_segments, indices),
               indices |-> <<>>]
    ELSE LET idx_locs == IdxLocs(m.segment_indices, indices)
             mine(idx) == idx \in DOMAIN aw /\ aw[idx].lora_a_r = rank
         IN  IF \E t \in 1..Len(m.adapter_indices) :
                    mine(m.adapter_indices[t])
                    /\ m.adapter_indices[t] \notin DOMAIN idx_locs
             THEN [error |-> "KeyError"]
             ELSE [error |-> "",
                   rank |-> rank,
                   lora_a_ptr |-> Gather(lora_a_ptr, indices),
                   lora_b_ptr |-> Gather(lora_b_ptr, indices),
                   segment_starts |-> <<>>,
                   segment_ends |-> <<>>,
                   indices |-> [t \in 1..Len(m.adapter_indices) |->
                                   IF mine(m.adapter_indices[t])
                                   THEN idx_locs[m.adapter_indices[t]]
                                   ELSE -1]]

\* The end of load: the exception a rank's iteration raised, or the
\* BatchLoraWeights.  Besides its fields the result keeps load's local tables
\* (the global pointer tables, rank_indices, the recomputed boundaries).
LoadResult(aw, lora_a, lora_b, use_sgmv, lora_a_ptr, lora_b_ptr, rank_indices, phs, rank_data) ==
    IF \E rank \in DOMAIN rank_data : rank_data[rank].error # ""
    THEN [aw |-> aw,
          batch |-> [status |->
             (CHOOSE e \in {rank_data[rank].error : rank \in DOMAIN rank_data} :
                 e # "")]]
    ELSE [aw |-> aw,
          batch |-> [status |-> "ok",
                     lora_a |-> lora_a,
                     lora_b |-> lora_b,
                     adapter_index_configs |-> DOMAIN lora_a,
                     rank_data |-> rank_data,
                     use_sgmv |-> use_sgmv,
                     lora_a_ptr |-> lora_a_ptr,
                     lora_b_ptr |-> lora_b_ptr,
                     rank_indices |-> rank_indices,
                     prefill_head_segment_starts |-> phs.starts,
                     prefill_head_segment_ends |-> phs.ends]]

\* `rank_data = {}` and the loop over rank_indices.
LoadRankData(aw, m, heads, lora_a, lora_b, use_sgmv, lora_a_ptr, lora_b_ptr, rank_indices, phs) ==
    IF phs.error THEN [aw |-> aw, batch |-> [status |-> "IndexError"]]
    ELSE LoadResult(aw, lora_a, lora_b, use_sgmv, lora_a_ptr, lora_b_ptr,
                    rank_indices, phs,
                    [rank \in DOMAIN rank_indices |->
                        RankSegments(aw, m, rank, rank_indices[rank], use_sgmv,
                                     lora_a_ptr, lora_b_ptr, heads, phs)])

\* adapter_index_configs, rank_indices and, with selected positions, the
\* recomputed boundaries.
LoadRankIndices(aw, m, heads, lora_a, lora_b, use_sgmv, lora_a_ptr, lora_b_ptr) ==
    LoadRankData(aw, m, heads, lora_a, lora_b, use_sgmv, lora_a_ptr, lora_b_ptr,
                 RankIndices(aw, m.segment_indices, 1, <<>>),
                 IF heads.given
                 THEN PrefillHeadSegments(heads.positions, m.adapter_segments,
                                          1, 1, <<0>>, <<0>>)
                 ELSE [error |-> FALSE, starts |-> <<>>, ends |-> <<>>])

\* The B pointer table, read after the A pointer table (`pa`).
LoadPtrB(m, heads, lora_a, lora_b, held, use_sgmv, pa, pb) ==
    LoadRankIndices(pb.aw, m, heads, lora_a, lora_b, use_sgmv,
                    PtrTable(pa.out), PtrTable(pb.out))

LoadPtrA(m, heads, lora_a, lora_b, held, use_sgmv, pa) ==
    LoadPtrB(m, heads, lora_a, lora_b, held, use_sgmv, pa,
             ReadEach(pa.aw, m.segment_indices, 1,
                      IF use_sgmv THEN "weights_b" ELSE "weights_b_t",
                      held, FALSE, <<>>))

\* The two branches of `if prefill or max_rank > BGMV_MAX_RANK`: the pointer
\* tables in load-time orientation for sgmv, transposed for bgmv.
LoadPtrTables(aw, m, heads, lora_a, lora_b, held, use_sgmv) ==
    LoadPtrA(m, heads, lora_a, lora_b, held, use_sgmv,
             ReadEach(aw, m.segment_indices, 1,
                      IF use_sgmv THEN "weights_a" ELSE "weights_a_t",
                      held, FALSE, <<>>))

\* segment_ranks, the early return and the kernel choice.
LoadKernelChoice(aw, m, is_prefill, heads, lora_a, lora_b, held) ==
    IF SegmentRanks(aw, m.segment_indices) = {}
    THEN [aw |-> aw, batch |-> [status |-> "None"]]
    ELSE LoadPtrTables(aw, m, heads, lora_a, lora_b, held,
                       UseSgmv(is_prefill, Max(SegmentRanks(aw, m.segment_indices))))

\* The lora_b dictionary, read after the lora_a dictionary (`ra`).
LoadDictB(m, is_prefill, heads, ra, rb) ==
    LoadKernelChoice(rb.aw, m, is_prefill, heads,
                     DictOf(rb.aw, m.segment_indices, ra.out),
                     DictOf(rb.aw, m.segment_indices, rb.out), rb.held)

LoadDictA(m, is_prefill, heads, ra) ==
    LoadDictB(m, is_prefill, heads, ra,
              ReadEach(ra.aw, m.segment_indices, 1, "weights_b", ra.held,
                       TRUE, <<>>))

\* device = first_weights.weights_a.device: the first instance's accessor is
\* read (the model takes the lowest adapter index as the first).
FirstWeightsRead(aw) ==
    [aw EXCEPT ![Min(DOMAIN aw)] =
        weights_a(@, PtrsOfOthers(aw, Min(DOMAIN aw))).self]

\* BatchLoraWeights.load(adapter_weights, meta, layer_name, prefill,
\* prefill_head_indices): the instances after the call and what it returns.
BatchLoraWeights_load(aw, m, is_prefill, heads) ==
    IF DOMAIN aw = {} THEN [aw |-> aw, batch |-> [status |-> "None"]]
    ELSE LoadDictA(m, is_prefill, heads,
                   ReadEach(FirstWeightsRead(aw), m.segment_indices, 1,
                            "weights_a", {}, TRUE, <<>>))

(***************************************************************************)
(* The serving loop: each step hands the layer's adapters and the batch    *)
(* metadata to BatchLoraWeights.load and drops the result after the step.  *)
(***************************************************************************)
RECURSIVE SumFirst(_, _)
SumFirst(lens, k) == IF k = 0 THEN 0 ELSE SumFirst(lens, k - 1) + lens[k]

\* AdapterBatchMetadata of a batch whose segments have the given adapters and
\* lengths: the boundaries and the per-token adapter indices agree with them.
MetaOf(segment_indices, lens) ==
    LET n == Len(segment_indices)
        adapter_segments == [k \in 1..(n + 1) |-> SumFirst(lens, k - 1)]
    IN  [segment_indices |-> segment_indices,
         adapter_segments |-> adapter_segments,
         adapter_indices |->
            [t \in 1..SumFirst(lens, n) |->
                segment_indices[CHOOSE i \in 1..n :
                    adapter_segments[i] <= t - 1 /\ t - 1 < adapter_segments[i + 1]]]]

\* The numbers of tokens a segment may have.
SegLens == {1, 2}

\* A segment is a maximal run of tokens of one adapter: neighbours differ.
Metas ==
    UNION {{MetaOf(segs, lens) :
                segs \in {x \in [1..n -> AdapterIds] :
                            \A i \in 1..(n - 1) : x[i] # x[i + 1]},
                lens \in [1..n -> SegLens]} : n \in 1..MaxSegs}

RECURSIVE SortedSeq(_)
SortedSeq(S) == IF S = {} THEN <<>> ELSE <<Min(S)>> \o SortedSeq(S \ {Min(S)})

NoHeads == [given |-> FALSE, positions |-> <<>>]

\* prefill_head_indices: strictly increasing positions of the batch's tokens.
HeadChoices(m) ==
    {[given |-> TRUE, positions |-> SortedSeq(S)] :
        S \in SUBSET (0..(Len(m.adapter_indices) - 1))}

\* One step: load with a batch, with or without selected token positions.
Step(m, is_prefill, heads) ==
    /\ LET r == BatchLoraWeights_load(adapter_weights, m, is_prefill, heads)
       IN  /\ adapter_weights' = r.aw
           /\ batch' = r.batch
    /\ meta' = m
    /\ prefill' = is_prefill
    /\ prefill_head_indices' = heads
    /\ UNCHANGED <<orient_vars, load_vars>>

\* A step without selected token positions, prefill or decode.
Load ==
    /\ batch.status = "idle"
    /\ \E m \in Metas, is_prefill \in BOOLEAN : Step(m, is_prefill, NoHeads)

\* A prefill step whose outputs are wanted at selected positions only.
LoadSelected ==
    /\ batch.status = "idle"
    /\ \E m \in Metas : \E heads \in HeadChoices(m) : Step(m, TRUE, heads)

\* The step ends: the aggregation and the metadata are discarded.
Release ==
    /\ batch.status # "idle"
    /\ batch' = [status |-> "idle"]
    /\ meta' = [segment_indices |-> <<>>, adapter_segments |-> <<0>>,
                adapter_indices |-> <<>>]
    /\ prefill' = FALSE
    /\ prefill_head_indices' = NoHeads
    /\ UNCHANGED <<adapter_weights, orient_vars, load_vars>>

\* The LoraWeights of adapter idx with the given rank, as built at load time:
\* one layer, hidden size 1.
AdapterOfRank(idx, rank) ==
    LoraWeights([ptr |-> RegionSize * idx + 1,
                 val |-> Block(2 * idx + 1, 1, 1, rank)],
                [ptr |-> RegionSize * idx + 2,
                 val |-> Block(2 * idx + 2, 1, rank, 1)],
                use_cutlass_shrink(rank))

\* The adapters with weights for the layer and their ranks.  Adapter indices
\* are interchangeable, so the dictionaries are taken up to renaming: the
\* adapters without weights have the lowest indices and the ranks do not
\* decrease with the index.
Registries(loaded_sets) ==
    UNION {{[idx \in loaded |-> AdapterOfRank(idx, rank[idx])] :
               rank \in {f \in [loaded -> Ranks] :
                            \A i, j \in loaded : i < j => f[i] <= f[j]}} :
           loaded \in loaded_sets}

IdleStep ==
    /\ meta = [segment_indices |-> <<>>, adapter_segments |-> <<0>>,
               adapter_indices |-> <<>>]
    /\ prefill = FALSE
    /\ prefill_head_indices = NoHeads
    /\ batch = [status |-> "idle"]

InitBatch ==
    /\ adapter_weights \in Registries({{}, {2}, {1, 2}, {0, 1, 2}})
    /\ IdleStep

InitSelected ==
    /\ adapter_weights \in Registries({{1, 2}})
    /\ IdleStep

BatchInit == InitBatch /\ IdleOrient /\ IdleLoad

NextBatch == Load \/ Release

SpecBatch == BatchInit /\ [][NextBatch]_vars

SelectedInit == InitSelected /\ IdleOrient /\ IdleLoad

NextSelected == LoadSelected \/ Release

SpecSelected == SelectedInit /\ [][NextSelected]_vars

(***************************************************************************)
(* The claims about BatchLoraWeights.load, stated on the step's inputs     *)
(* (meta, prefill, prefill_head_indices), the adapters after the call and  *)
(* the result.                                                             *)
(***************************************************************************)
NumSegments == Len(meta.segment_indices)

\* Segment i (1-based) has an adapter with weights for the layer.
Participates(i) == meta.segment_indices[i] \in DOMAIN adapter_weights

SegmentAdapter(i) == adapter_weights[meta.segment_indices[i]]

\* The 0-based positions of the participating segments of rank r, ascending.
GroupPositions(r) ==
    SortedSeq({i - 1 : i \in {k \in 1..NumSegments :
                                 Participates(k) /\ SegmentAdapter(k).lora_a_r = r}})

\* How often position p occurs in the rank groups.
Occurrences(p) ==
    LET g == batch.rank_indices
    IN  Cardinality({<<r, k>> \in UNION {{r} \X (1..Len(g[r])) : r \in DOMAIN g} :
                        g[r][k] = p})

\* C1: when load returns a result, on the sgmv and on the bgmv path, the global
\* A and B pointer tables have one entry per segment, in segment order; the
\* entry is the empty tensor's address exactly when the segment's adapter has
\* no weights for the layer, and else the address of that adapter's A (B) block.
C1_PointerTables ==
    batch.status = "ok" =>
       /\ Len(batch.lora_a_ptr) = NumSegments
       /\ Len(batch.lora_b_ptr) = NumSegments
       /\ \A i \in 1..NumSegments :
             /\ batch.lora_a_ptr[i] = EMPTY_TENSOR.ptr <=> ~Participates(i)
             /\ batch.lora_b_ptr[i] = EMPTY_TENSOR.ptr <=> ~Participates(i)
             /\ Participates(i) =>
                   /\ batch.lora_a_ptr[i] = SegmentAdapter(i)._weights_a.ptr
                   /\ batch.lora_b_ptr[i] = SegmentAdapter(i)._weights_b.ptr

\* A decode batch of three segments, one of an adapter without weights, one of
\* an adapter whose A block was transposed by the call (its address is not the
\* one the lora_a dictionary holds).
C1_Witness ==
    /\ batch.status = "ok" /\ ~batch.use_sgmv
    /\ NumSegments = 3
    /\ \E i \in 1..3 : ~Participates(i)
    /\ \E i \in 1..3 :
          /\ Participates(i)
          /\ batch.lora_a_ptr[i] # batch.lora_a[meta.segment_indices[i]].ptr

\* C2: on the sgmv path without selected positions, each rank group is aligned
\* with the metadata: with p_1 < ... < p_k the group's segment positions, its
\* j-th A/B pointer is the global table's entry of segment p_j, its j-th start
\* is adapter_segments[p_j] and its j-th end adapter_segments[p_j + 1].
C2_SgmvAlignment ==
    (batch.status = "ok" /\ batch.use_sgmv /\ ~prefill_head_indices.given) =>
       \A r \in DOMAIN batch.rank_data :
          LET p == GroupPositions(r)
              d == batch.rank_data[r]
          IN  /\ Len(p) > 0
              /\ Len(d.lora_a_ptr) = Len(p) /\ Len(d.lora_b_ptr) = Len(p)
              /\ Len(d.segment_starts) = Len(p) /\ Len(d.segment_ends) = Len(p)
              /\ \A j \in 1..Len(p) :
                    /\ d.lora_a_ptr[j] = batch.lora_a_ptr[p[j] + 1]
                    /\ d.lora_b_ptr[j] = batch.lora_b_ptr[p[j] + 1]
                    /\ d.segment_starts[j] = meta.adapter_segments[p[j] + 1]
                    /\ d.segment_ends[j] = meta.adapter_segments[p[j] + 2]

\* The scenario [X, Y, X] with rank(X) = 8 and rank(Y) = 16 on a prefill step:
\* group 8 holds positions 0 and 2, group 16 position 1.
C2_Witness ==
    /\ batch.status = "ok" /\ prefill /\ ~prefill_head_indices.given
    /\ NumSegments = 3
    /\ meta.segment_indices[1] = meta.segment_indices[3]
    /\ DOMAIN batch.rank_data = {8, 16}
    /\ batch.rank_indices[8] = <<0, 2>>
    /\ batch.rank_indices[16] = <<1>>
    /\ batch.rank_data[8].segment_ends[1] < batch.rank_data[8].segment_starts[2]

\* The 0-based location of the first segment of adapter idx among positions p.
FirstOccurrence(idx, p) ==
    Min({j \in 1..Len(p) : meta.segment_indices[p[j] + 1] = idx}) - 1

\* C3: on the bgmv path, for every rank group r and every token t,
\* rank_data[r].indices[t] is the first-occurrence location of the token's
\* adapter in the group's pointer slice when that adapter has weights of rank
\* r, and -1 otherwise; and where it is not -1, the group's A pointer at that
\* location is the address of the token's adapter's A block.
C3_BgmvIndices ==
    (batch.status = "ok" /\ ~batch.use_sgmv) =>
       \A r \in DOMAIN batch.rank_data :
          LET p == GroupPositions(r)
              d == batch.rank_data[r]
          IN  /\ Len(d.indices) = Len(meta.adapter_indices)
              /\ \A t \in 1..Len(meta.adapter_indices) :
                    LET idx == meta.adapter_indices[t] IN
                    IF idx \in DOMAIN adapter_weights
                       /\ adapter_weights[idx].lora_a_r = r
                    THEN /\ d.indices[t] = FirstOccurrence(idx, p)
                         /\ d.lora_a_ptr[d.indices[t] + 1] =
                               adapter_weights[idx]._weights_a.ptr
                    ELSE d.indices[t] = -1

\* A decode batch [X, Y, X] with X and Y of one rank: the tokens of the third
\* segment index location 0, those of Y location 1.
C3_Witness ==
    /\ batch.status = "ok" /\ ~batch.use_sgmv
    /\ NumSegments = 3
    /\ meta.segment_indices[1] = meta.segment_indices[3]
    /\ \E r \in DOMAIN batch.rank_data :
          /\ batch.rank_indices[r] = <<0, 1, 2>>
          /\ batch.rank_data[r].indices[Len(meta.adapter_indices)] = 0
          /\ \E t \in 1..Len(meta.adapter_indices) :
                batch.rank_data[r].indices[t] = 1

\* C4: the rank groups partition the participating segment positions: a
\* position whose adapter has weights occurs in exactly one group, once, and a
\* position whose adapter has none occurs in no group; every rank has a
\* RankSegments.
C4_RankGroupsPartition ==
    batch.status = "ok" =>
       /\ DOMAIN batch.rank_data = DOMAIN batch.rank_indices
       /\ \A r \in DOMAIN batch.rank_indices :
             \A k \in 1..Len(batch.rank_indices[r]) :
                batch.rank_indices[r][k] \in 0..(NumSegments - 1)
       /\ \A i \in 1..NumSegments :
             Occurrences(i - 1) = IF Participates(i) THEN 1 ELSE 0

\* Three segments: two participating with different ranks, one without weights.
C4_Witness ==
    /\ batch.status = "ok"
    /\ NumSegments = 3
    /\ Cardinality(DOMAIN batch.rank_indices) = 2
    /\ \E i \in 1..3 : ~Participates(i)

\* The ranks of the adapters of the participating segments.
ParticipatingRanks ==
    {SegmentAdapter(i).lora_a_r : i \in {k \in 1..NumSegments : Participates(k)}}

\* C5: one kernel choice per call: sgmv whenever prefill is set; on a decode
\* step bgmv when the largest rank among the participating segments' adapters
\* is at most BGMV_MAX_RANK and sgmv when it is larger.
C5_KernelChoice ==
    batch.status = "ok" =>
       batch.use_sgmv = (prefill \/ Max(ParticipatingRanks) > BGMV_MAX_RANK)

\* A decode step on bgmv although an adapter of a rank above the capacity has
\* weights for the layer: it has no segment in the batch.
C5_Witness ==
    /\ batch.status = "ok" /\ ~prefill /\ ~batch.use_sgmv
    /\ Cardinality(ParticipatingRanks) = 2
    /\ \E idx \in DOMAIN adapter_weights :
          adapter_weights[idx].lora_a_r > BGMV_MAX_RANK

\* The number of selected positions before token position x.
SelectedBefore(x) ==
    Cardinality({h \in 1..Len(prefill_head_indices.positions) :
                    prefill_head_indices.positions[h] < x})

\* The range of every participating segment is the count of the selected
\* positions before its first token and before its end boundary, and there is
\* one recomputed pair per batch segment.
FilteredRangesExact ==
    /\ batch.status = "ok"
    /\ Len(batch.prefill_head_segment_starts) = NumSegments
    /\ Len(batch.prefill_head_segment_ends) = NumSegments
    /\ \A r \in DOMAIN batch.rank_data :
          LET p == GroupPositions(r)
              d == batch.rank_data[r]
          IN  /\ Len(d.segment_starts) = Len(p) /\ Len(d.segment_ends) = Len(p)
              /\ \A j \in 1..Len(p) :
                    /\ d.segment_starts[j] =
                          SelectedBefore(meta.adapter_segments[p[j] + 1])
                    /\ d.segment_ends[j] =
                          SelectedBefore(meta.adapter_segments[p[j] + 2])

\* A call on the sgmv path with selected positions that got past the early
\* returns.
SelectedSgmvCall ==
    /\ prefill_head_indices.given
    /\ prefill
    /\ batch.status \notin {"idle", "None"}

\* Every batch segment contains at least one selected position.
EverySegmentSelected ==
    \A i \in 1..NumSegments :
       \E h \in 1..Len(prefill_head_indices.positions) :
          /\ meta.adapter_segments[i] <= prefill_head_indices.positions[h]
          /\ prefill_head_indices.positions[h] < meta.adapter_segments[i + 1]

\* C10 as stated: on the sgmv path with strictly increasing selected positions
\* inside the batch, there is one recomputed pair per batch segment and each
\* participating segment's range counts the selected positions inside it.
C10_FilteredRangesAnySelection == SelectedSgmvCall => FilteredRangesExact

\* C10 amended: the same, for selections that contain at least one position of
\* every batch segment.
C10_FilteredRanges ==
    (SelectedSgmvCall /\ EverySegmentSelected) => FilteredRangesExact

\* Three segments, each with a selected position, one with two, and a token
\* that is not selected; two segments participate.
C10_Witness ==
    /\ SelectedSgmvCall /\ EverySegmentSelected
    /\ batch.status = "ok"
    /\ NumSegments = 3
    /\ Len(prefill_head_indices.positions) < Len(meta.adapter_indices)
    /\ \E r \in DOMAIN batch.rank_data : \E j \in 1..Len(batch.rank_indices[r]) :
          batch.rank_data[r].segment_ends[j]
             = batch.rank_data[r].segment_starts[j] + 2
    /\ \E i, k \in 1..3 : i # k /\ Participates(i) /\ Participates(k)

(***************************************************************************)
(* Sequential reads: one caller reads one accessor at a time.              *)
(***************************************************************************)
Read(c, name) ==
    LET others == HeldByCallers
        r == CASE name = "weights_a" -> weights_a(lw, others)
               [] name = "weights_b" -> weights_b(lw, others)
               [] name = "weights_a_t" -> weights_a_t(lw, others)
               [] OTHER -> weights_b_t(lw, others)
    IN  /\ lw' = r.self
        /\ ret' = [ret EXCEPT ![c] = r.ret]
        /\ acc' = [acc EXCEPT ![c] = name]
        /\ pc' = [pc EXCEPT ![c] = "done"]
        /\ UNCHANGED <<loaded_a, loaded_b, tmp_t, tmp_f>>

Read_weights_a == Read(1, "weights_a") /\ UNCHANGED <<load_vars, batch_vars>>

Read_weights_b == Read(1, "weights_b") /\ UNCHANGED <<load_vars, batch_vars>>

Read_weights_a_t == Read(1, "weights_a_t") /\ UNCHANGED <<load_vars, batch_vars>>

Read_weights_b_t == Read(1, "weights_b_t") /\ UNCHANGED <<load_vars, batch_vars>>

NextOrient ==
    \/ Read_weights_a
    \/ Read_weights_b
    \/ Read_weights_a_t
    \/ Read_weights_b_t

OrientInit == InitOrient /\ IdleLoad /\ IdleBatch

SpecOrient == OrientInit /\ [][NextOrient]_vars

\* What each accessor promises, in terms of the load-time blocks.
Promised(name) ==
    CASE name = "weights_a" -> loaded_a
      [] name = "weights_b" -> loaded_b
      [] name = "weights_a_t" ->
            IF lw._use_cutlass_shrink THEN Transpose12(loaded_a) ELSE loaded_a
      [] OTHER -> Transpose12(loaded_b)

\* The flag agrees with the orientation of the stored blocks.
FlagAgrees ==
    /\ lw._weights_a.val = IF lw._is_transposed THEN Promised("weights_a_t")
                           ELSE Promised("weights_a")
    /\ lw._weights_b.val = IF lw._is_transposed THEN Promised("weights_b_t")
                           ELSE Promised("weights_b")

\* The read that has just ended asked for the orientation that was stored.
ReadOfStoredOrientation ==
    /\ pc'[1] = "done"
    /\ ret' # ret \/ acc' # acc \/ pc' # pc \/ lw' # lw
    /\ lw._is_transposed = (acc'[1] \in {"weights_a_t", "weights_b_t"})

OrientReturnsPromised ==
    /\ pc[1] = "done" => ret[1].val = Promised(acc[1])
    /\ FlagAgrees

\* C7: after any sequence of sequential reads of the four accessors, on either
\* shrink configuration, the block returned is the load-time block (weights_a,
\* weights_b), its transpose (weights_b_t, and weights_a_t with the cutlass
\* shrink) or the load-time A (weights_a_t without it); the flag agrees with the
\* stored orientation; and a read of the orientation already stored leaves the
\* instance as it is, performing no transposition.
C7_OrientationToggle ==
    /\ []OrientReturnsPromised
    /\ [][ReadOfStoredOrientation => lw' = lw]_vars

\* A round trip: A was transposed and transposed back (a new allocation holds
\* the load-time value again), on the cutlass-shrink configuration and a block
\* that is not its own transpose.
C7_Witness ==
    /\ pc[1] = "done" /\ acc[1] = "weights_a"
    /\ lw._use_cutlass_shrink
    /\ ~lw._is_transposed
    /\ ret[1].ptr # 1
    /\ ret[1].val = loaded_a
    /\ Transpose12(loaded_a) # loaded_a

(***************************************************************************)
(* Concurrent reads: the callers interleave at every attribute read and    *)
(* write of the accessor and of _transpose_weights.                        *)
(***************************************************************************)
AllHeld == LwPtrs \cup HeldByCallers

\* A caller enters an accessor; each caller makes one read.
Call(c) ==
    /\ pc[c] = "idle"
    /\ \E name \in Accessors : acc' = [acc EXCEPT ![c] = name]
    /\ pc' = [pc EXCEPT ![c] = "check"]
    /\ UNCHANGED <<lw, loaded_a, loaded_b, tmp_t, tmp_f, ret>>
    /\ UNCHANGED <<load_vars, batch_vars>>

\* `if self._is_transposed:` (or its negation), then the test of
\* _use_cutlass_shrink, which nothing writes.
CheckFlag(c) ==
    /\ pc[c] = "check"
    /\ LET flip == IF acc[c] \in {"weights_a", "weights_b"}
                   THEN lw._is_transposed ELSE ~lw._is_transposed
       IN  pc' = [pc EXCEPT ![c] = IF ~flip THEN "return"
                                   ELSE IF lw._use_cutlass_shrink THEN "a_load"
                                   ELSE "b_load"]
    /\ UNCHANGED <<lw, loaded_a, loaded_b, acc, tmp_t, tmp_f, ret>>
    /\ UNCHANGED <<load_vars, batch_vars>>

\* self._weights_a is read ...
LoadA(c) ==
    /\ pc[c] = "a_load"
    /\ tmp_t' = [tmp_t EXCEPT ![c] = lw._weights_a]
    /\ pc' = [pc EXCEPT ![c] = "a_store"]
    /\ UNCHANGED <<lw, loaded_a, loaded_b, acc, tmp_f, ret>>
    /\ UNCHANGED <<load_vars, batch_vars>>

\* ... and its transposed copy is stored.
StoreA(c) ==
    /\ pc[c] = "a_store"
    /\ lw' = [lw EXCEPT !._weights_a = TransposeContiguous(tmp_t[c], AllHeld)]
    /\ tmp_t' = [tmp_t EXCEPT ![c] = EMPTY_TENSOR]
    /\ pc' = [pc EXCEPT ![c] = "b_load"]
    /\ UNCHANGED <<loaded_a, loaded_b, acc, tmp_f, ret>>
    /\ UNCHANGED <<load_vars, batch_vars>>

LoadB(c) ==
    /\ pc[c] = "b_load"
    /\ tmp_t' = [tmp_t EXCEPT ![c] = lw._weights_b]
    /\ pc' = [pc EXCEPT ![c] = "b_store"]
    /\ UNCHANGED <<lw, loaded_a, loaded_b, acc, tmp_f, ret>>
    /\ UNCHANGED <<load_vars, batch_vars>>

StoreB(c) ==
    /\ pc[c] = "b_store"
    /\ lw' = [lw EXCEPT !._weights_b = TransposeContiguous(tmp_t[c], AllHeld)]
    /\ tmp_t' = [tmp_t EXCEPT ![c] = EMPTY_TENSOR]
    /\ pc' = [pc EXCEPT ![c] = "f_load"]
    /\ UNCHANGED <<loaded_a, loaded_b, acc, tmp_f, ret>>
    /\ UNCHANGED <<load_vars, batch_vars>>

\* self._is_transposed = not self._is_transposed: the read ...
LoadFlag(c) ==
    /\ pc[c] = "f_load"
    /\ tmp_f' = [tmp_f EXCEPT ![c] = lw._is_transposed]
    /\ pc' = [pc EXCEPT ![c] = "f_store"]
    /\ UNCHANGED <<lw, loaded_a, loaded_b, acc, tmp_t, ret>>
    /\ UNCHANGED <<load_vars, batch_vars>>

\* ... and the write.
StoreFlag(c) ==
    /\ pc[c] = "f_store"
    /\ lw' = [lw EXCEPT !._is_transposed = ~tmp_f[c]]
    /\ tmp_f' = [tmp_f EXCEPT ![c] = FALSE]
    /\ pc' = [pc EXCEPT ![c] = "return"]
    /\ UNCHANGED <<loaded_a, loaded_b, acc, tmp_t, ret>>
    /\ UNCHANGED <<load_vars, batch_vars>>

\* return self._weights_a (or _weights_b)
Return(c) ==
    /\ pc[c] = "return"
    /\ ret' = [ret EXCEPT ![c] = IF acc[c] \in {"weights_a", "weights_a_t"}
                                 THEN lw._weights_a ELSE lw._weights_b]
    /\ pc' = [pc EXCEPT ![c] = "done"]
    /\ UNCHANGED <<lw, loaded_a, loaded_b, acc, tmp_t, tmp_f>>
    /\ UNCHANGED <<load_vars, batch_vars>>

NextRace ==
    \/ \E c \in Callers : Call(c)
    \/ \E c \in Callers : CheckFlag(c)
    \/ \E c \in Callers : LoadA(c)
    \/ \E c \in Callers : StoreA(c)
    \/ \E c \in Callers : LoadB(c)
    \/ \E c \in Callers : StoreB(c)
    \/ \E c \in Callers : LoadFlag(c)
    \/ \E c \in Callers : StoreFlag(c)
    \/ \E c \in Callers : Return(c)

SpecRace == OrientInit /\ [][NextRace]_vars

Quiescent == \A c \in Callers : pc[c] \in {"idle", "done"}

\* C8: with concurrent readers and no lock, every accessor that has returned
\* returned the orientation it promises, the flag agrees with the stored
\* orientation whenever no caller is inside an accessor, and the stored blocks
\* always hold the load-time values in one of the two orientations.
C8_RaceSafe ==
    /\ \A c \in Callers : pc[c] = "done" => ret[c].val = Promised(acc[c])
    /\ Quiescent => FlagAgrees
    /\ lw._weights_a.val \in {loaded_a, Transpose12(loaded_a)}
    /\ lw._weights_b.val \in {loaded_b, Transpose12(loaded_b)}

====
